---- MODULE Spec2Model ----
(***************************************************************************)
(* A model of passcore's scoring functions (src/src/lib.rs,                *)
(* src/src/score.rs).                                                      *)
(*                                                                         *)
(* A Rust `char` is a string naming the character; a `&str` is the         *)
(* sequence of its chars.  Characters keep their UTF-8 width, so that      *)
(* `str::len()` (bytes) and `chars().count()` (characters) differ as they  *)
(* do in the program.                                                      *)
(***************************************************************************)
EXTENDS Integers, Sequences, FiniteSets

\* ------------------------------------------------------------------ bounds

\* Longest password drawn from the full alphabet.
MaxLen == 4
\* Longest run of "a" appended to a one-character password.
MaxRun == 41
\* Longest string handed to levenshtein_with_cutoff on its own.
MaxLevLen == 3
\* Largest cutoff handed to levenshtein_with_cutoff on its own.
MaxCutoff == 3
\* Number of threads calling score_penalties.
NThreads == 2
\* Number of scoring calls each thread makes.
MaxCalls == 2

\* ------------------------------------------------------------- characters

\* 'a' 'b' 'A' '1' ' ' and three two-byte characters:
\* U+00E9 (e acute, Ll), U+01C5 (Dz with caron, titlecase Lt) and its
\* lowercase mapping U+01C6 (dz with caron, Ll).
Alphabet == {"a", "b", "A", "1", " ", "e_acute", "Dz_title"}

TwoByte == {"e_acute", "Dz_title", "dz_small"}

\* The character an Option<char> holds when it is None.
None == "none"

len_utf8(c) == IF c \in TwoByte THEN 2 ELSE 1

\* char::is_whitespace
is_whitespace(c) == c = " "

\* char::is_uppercase: the Unicode property Uppercase (Lu and Other_Uppercase);
\* a titlecase letter (Lt) does not have it.
is_uppercase(c) == c = "A"

\* char::is_lowercase: the Unicode property Lowercase.
is_lowercase(c) == c \in {"a", "b", "e_acute", "dz_small"}

\* char::is_numeric
is_numeric(c) == c = "1"

\* char::to_lowercase: the lowercase mapping of UnicodeData, which titlecase
\* letters have too.
char_to_lowercase(c) ==
    CASE c = "A" -> "a"
      [] c = "Dz_title" -> "dz_small"
      [] OTHER -> c

Min(x, y) == IF x <= y THEN x ELSE y

Abs(x) == IF x < 0 THEN -x ELSE x

\* ---------------------------------------------------------------- strings

\* chars().count()
chars_count(s) == Len(s)

\* str::len(): the length in bytes.
RECURSIVE str_len(_)
str_len(s) == IF s = <<>> THEN 0 ELSE len_utf8(Head(s)) + str_len(Tail(s))

\* chars().next()
chars_first(s) == IF s = <<>> THEN None ELSE s[1]

\* chars().last() and chars().next_back()
chars_last(s) == IF s = <<>> THEN None ELSE s[Len(s)]

RECURSIVE trim_start(_)
trim_start(s) ==
    IF s # <<>> /\ is_whitespace(Head(s)) THEN trim_start(Tail(s)) ELSE s

RECURSIVE trim_end(_)
trim_end(s) ==
    IF s # <<>> /\ is_whitespace(s[Len(s)])
    THEN trim_end(SubSeq(s, 1, Len(s) - 1))
    ELSE s

\* str::trim
trim(s) == trim_end(trim_start(s))

\* str::to_lowercase
to_lowercase(s) == [i \in 1..Len(s) |-> char_to_lowercase(s[i])]

\* ----------------------------------------------------------- corpus index

\* The closure of PASSWORD_DATA applied to one line.
PasswordEntry(line) ==
    LET pw == to_lowercase(trim(line))
    IN  [password |-> pw,
         len      |-> chars_count(pw),
         first    |-> chars_first(pw),
         last     |-> chars_last(pw)]

\* PASSWORD_DATA: one entry per line, in line order.
PASSWORD_DATA(lines) == [i \in 1..Len(lines) |-> PasswordEntry(lines[i])]

\* ----------------------------------------------------------- score_length

\* score_length with the third band ending before 12 instead of at 12.
score_length_strict_band(password) ==
    LET length == chars_count(password)
        score ==
            IF length = 0 THEN 0
            ELSE IF length <= 4 THEN length * 2 + 2
            ELSE IF length <= 8 THEN length * 6 + 2
            ELSE IF length < 12 THEN length * 12 + 6
            ELSE IF length <= 16 THEN length * 15 + 10
            ELSE IF length <= 24 THEN length * 15
            ELSE IF length <= 39 THEN (length * 5) \div 2 + 300
            ELSE 400
    IN  Min(score, 400)

\* score_length: the if chain over the character count, then min(400).
score_length(password) ==
    LET length == chars_count(password)
        score ==
            IF length = 0 THEN 0
            ELSE IF length <= 4 THEN length * 2 + 2
            ELSE IF length <= 8 THEN length * 6 + 2
            ELSE IF length <= 12 THEN length * 12 + 6
            ELSE IF length <= 16 THEN length * 15 + 10
            ELSE IF length <= 24 THEN length * 15
            ELSE IF length <= 39 THEN (length * 5) \div 2 + 300
            ELSE 400
    IN  Min(score, 400)

\* ---------------------------------------------------------- score_variety

\* The loop over password.chars(): the four flags after the characters from
\* position i on, with the break once all four are set.
RECURSIVE variety_flags(_, _, _)
variety_flags(password, i, f) ==
    IF i > Len(password) THEN f
    ELSE IF f.lower /\ f.upper /\ f.digit /\ f.symbol THEN f
    ELSE LET c == password[i]
             g == IF is_lowercase(c) THEN [f EXCEPT !.lower = TRUE]
                  ELSE IF is_uppercase(c) THEN [f EXCEPT !.upper = TRUE]
                  ELSE IF is_numeric(c) THEN [f EXCEPT !.digit = TRUE]
                  ELSE [f EXCEPT !.symbol = TRUE]
         IN  variety_flags(password, i + 1, g)

\* The point table with a wrong value for four types.
variety_points_wrong_top(types) ==
    CASE types = 0 -> 0
      [] types = 1 -> 25
      [] types = 2 -> 70
      [] types = 3 -> 130
      [] types = 4 -> 260
      [] OTHER -> 0

\* match types { 0 => 0, 1 => 25, 2 => 70, 3 => 130, 4 => 200, _ => 0 }
variety_points(types) ==
    CASE types = 0 -> 0
      [] types = 1 -> 25
      [] types = 2 -> 70
      [] types = 3 -> 130
      [] types = 4 -> 200
      [] OTHER -> 0

score_variety(password) ==
    LET f == variety_flags(password, 1,
                 [lower |-> FALSE, upper |-> FALSE,
                  digit |-> FALSE, symbol |-> FALSE])
        types == (IF f.lower THEN 1 ELSE 0) + (IF f.upper THEN 1 ELSE 0)
                 + (IF f.digit THEN 1 ELSE 0) + (IF f.symbol THEN 1 ELSE 0)
    IN  variety_points(types)

\* ------------------------------------------------------- score_uniqueness

\* (x as f32 / y as f32 * 200.0).round() for 0 < x <= y: round() rounds half
\* away from zero.  200x/y is a half-integer only when 16 divides y, and then
\* x/y and the product are exact in f32; otherwise 200x/y is at least 1/(2y)
\* away from a half-integer, far more than the f32 rounding error; both hold
\* for y < 80, which covers the lengths of this model, so the result is the
\* exact quotient rounded.
ratio_points(x, y) == (400 * x + y) \div (2 * y)

score_uniqueness(password) ==
    IF password = <<>> THEN 0
    ELSE LET set == {password[i] : i \in 1..Len(password)}
         IN  ratio_points(Cardinality(set), str_len(password))

\* ------------------------------------------------ levenshtein_with_cutoff

\* The inner loop over b.chars().enumerate() for one character ca of a:
\* v1[j + 1] and min after the characters of b from position j (0-based) on.
\* Vec index j is sequence index j + 1.
RECURSIVE lev_inner(_, _, _, _, _, _)
lev_inner(ca, b, j, v0, v1, min) ==
    IF j >= Len(b) THEN [v1 |-> v1, min |-> min]
    ELSE LET cb == b[j + 1]
             cost == IF ca = cb THEN 0 ELSE 1
             val == Min(Min(v1[j + 1] + 1, v0[j + 2] + 1), v0[j + 1] + cost)
         IN  lev_inner(ca, b, j + 1, v0, [v1 EXCEPT ![j + 2] = val],
                       Min(min, val))

\* The outer loop over a.chars().enumerate() from row i (0-based) on, and
\* the result read from v0[b.len()] after it.
RECURSIVE lev_rows(_, _, _, _, _, _)
lev_rows(a, b, i, v0, v1, threshold) ==
    IF i >= Len(a)
    THEN LET result == v0[str_len(b) + 1]
         IN  IF result > threshold THEN threshold + 1 ELSE result
    ELSE LET row == lev_inner(a[i + 1], b, 0, v0,
                              [v1 EXCEPT ![1] = i + 1], i + 1)
         IN  IF row.min > threshold
             THEN threshold + 1
             ELSE lev_rows(a, b, i + 1, row.v1, v0, threshold)

\* v0 = (0..=b.len()).collect(), v1 = vec![0; b.len() + 1]: both vectors are
\* sized by the byte length of b.
levenshtein_with_cutoff(a, b, threshold) ==
    lev_rows(a, b, 0,
             [j \in 1..(str_len(b) + 1) |-> j - 1],
             [j \in 1..(str_len(b) + 1) |-> 0],
             threshold)

\* -------------------------------------------------------- score_penalties

\* The Cow<str> `normalized`: trimmed only when whitespace is at either end,
\* lowercased only when some character is_uppercase.
normalize(password) ==
    LET needs_trim ==
            password # <<>>
            /\ (is_whitespace(password[1])
                \/ is_whitespace(password[Len(password)]))
        trimmed == IF needs_trim THEN trim(password) ELSE password
    IN  IF \E i \in 1..Len(trimmed) : is_uppercase(trimmed[i])
        THEN to_lowercase(trimmed)
        ELSE trimmed

\* PASSWORD_DATA.iter().any(|entry| entry.password == normalized)
direct_match(data, normalized) ==
    \E i \in 1..Len(data) : data[i].password = normalized

\* The filter closure of `candidates`.
length_close(common, len) == Abs(common.len - len) <= 3

\* The boundary test with && for ||.
boundary_match_both(first, last, common) ==
    first = common.first /\ last = common.last

\* first == cfirst || last == clast
boundary_match(first, last, common) ==
    first = common.first \/ last = common.last

\* The for loop over `candidates` from entry i of the index on.  calls lists
\* the entries levenshtein_with_cutoff has been called for, in order.
RECURSIVE scan(_, _, _, _)
scan(data, normalized, i, calls) ==
    IF i > Len(data) THEN [ret |-> 200, calls |-> calls]
    ELSE LET common == data[i]
         IN  IF ~length_close(common, chars_count(normalized))
             THEN scan(data, normalized, i + 1, calls)
             ELSE LET distance ==
                          levenshtein_with_cutoff(normalized,
                                                  common.password, 2)
                      called == Append(calls, i)
                  IN  IF boundary_match(chars_first(normalized),
                                        chars_last(normalized), common)
                      THEN IF distance <= 2
                           THEN [ret |-> 150, calls |-> called]
                           ELSE IF distance <= 4
                           THEN [ret |-> 50, calls |-> called]
                           ELSE scan(data, normalized, i + 1, called)
                      ELSE scan(data, normalized, i + 1, called)

\* score_penalties over the index `data`: the value returned, the normalized
\* input and the entries whose edit distance was computed.
penalties(data, password) ==
    LET normalized == normalize(password)
    IN  IF direct_match(data, normalized)
        THEN [ret |-> 0, normalized |-> normalized, calls |-> <<>>]
        ELSE LET r == scan(data, normalized, 1, <<>>)
             IN  [ret |-> r.ret, normalized |-> normalized,
                  calls |-> r.calls]

score_penalties(data, password) == penalties(data, password).ret

\* ------------------------------------------------------------------ state

VARIABLES
    corpus_lines,      \* the lines of the bundled word list
    password,          \* the argument of score()
    pc,                \* the statement of score() to run next
    total,             \* the local `score` of score()
    length_score,      \* what score_length returned, -1 before the call
    variety_score,     \* what score_variety returned
    uniqueness_score,  \* what score_uniqueness returned
    penalty_score,     \* what score_penalties returned
    normalized,        \* the local `normalized` of score_penalties
    dist_calls,        \* the entries levenshtein_with_cutoff was called for
    result,            \* what score() returned
    lev_a, lev_b,      \* the strings of a call of levenshtein_with_cutoff
    lev_k,             \* its threshold
    lev_ret,           \* what it returned, -1 before the call
    cell_state,        \* the state of the Lazy cell of PASSWORD_DATA
    cell_value,        \* the value the cell serves once complete
    builds,            \* how many times the initializer has been started
    tpc,               \* each thread's position in score_penalties
    tat,               \* the statement each thread forced the cell from
    tbuf,              \* the Vec each running initializer has collected
    tpw,               \* each thread's password
    tseen,             \* the index each thread last read through the cell
    tret,              \* what score_penalties returned to each thread
    tcalls             \* how many calls each thread has made

score_vars ==
    <<corpus_lines, password, pc, total, length_score, variety_score,
      uniqueness_score, penalty_score, normalized, dist_calls, result>>

lev_vars == <<lev_a, lev_b, lev_k, lev_ret>>

conc_vars ==
    <<cell_state, cell_value, builds, tpc, tat, tbuf, tpw, tseen, tret, tcalls>>

vars == <<score_vars, lev_vars, conc_vars>>

\* ----------------------------------------------------------------- inputs

\* The strings of at most n characters over the alphabet S.
Strs(S, n) == UNION {[1..k -> S] : k \in 0..n}

Run(k) == [i \in 1..k |-> "a"]

\* Every short password, and one character followed by a run of "a".
Passwords ==
    Strs(Alphabet, MaxLen)
    \cup {<<c>> \o Run(k) : c \in Alphabet, k \in 1..MaxRun}

\* Word lists standing for the bundled file: lines with surrounding
\* whitespace, uppercase and titlecase letters, two-byte characters, an empty
\* line and a duplicate.
Corpora ==
    { << <<"a", "1", "1", "1">>,
         <<" ", "A", "b">>,
         <<"e_acute", "1">>,
         <<"a", "1", "b", "1", "b", "1">>,
         <<"a", "b">> >>,
      << <<>>,
         <<"Dz_title">>,
         <<"1", "a">>,
         <<"b", "e_acute", "b">> >> }

Unset == 0 - 1

\* The characters of the strings handed to levenshtein_with_cutoff on its own.
LevAlphabet == {"a", "b", "e_acute"}

Threads == 1..NThreads

ConcPasswords == {<<"a", "b">>, <<"b", "b">>}

Unread == <<"unread">>

ScoreIdle ==
    /\ corpus_lines \in Corpora
    /\ password = <<>>
    /\ pc = "idle"
    /\ total = 0
    /\ length_score = Unset
    /\ variety_score = Unset
    /\ uniqueness_score = Unset
    /\ penalty_score = Unset
    /\ normalized = <<>>
    /\ dist_calls = <<>>
    /\ result = Unset

LevIdle ==
    /\ lev_a = <<>>
    /\ lev_b = <<>>
    /\ lev_k = 0
    /\ lev_ret = Unset

ConcIdle ==
    /\ cell_state = "Incomplete"
    /\ cell_value = <<>>
    /\ builds = 0
    /\ tpc = [t \in Threads |-> "idle"]
    /\ tat = [t \in Threads |-> "match"]
    /\ tbuf = [t \in Threads |-> <<>>]
    /\ tpw = [t \in Threads |-> <<>>]
    /\ tseen = [t \in Threads |-> Unread]
    /\ tret = [t \in Threads |-> Unset]
    /\ tcalls = [t \in Threads |-> 0]

\* ---------------------------------------------------- one call of score()

\* score(password) is entered: `let mut score = 0`.
Init ==
    /\ corpus_lines \in Corpora
    /\ password \in Passwords
    /\ pc = "length"
    /\ total = 0
    /\ length_score = Unset
    /\ variety_score = Unset
    /\ uniqueness_score = Unset
    /\ penalty_score = Unset
    /\ normalized = <<>>
    /\ dist_calls = <<>>
    /\ result = Unset
    /\ LevIdle
    /\ ConcIdle

\* score += score_length(password)
AddLength ==
    /\ pc = "length"
    /\ length_score' = score_length(password)
    /\ total' = (total + length_score') % 65536
    /\ pc' = "variety"
    /\ UNCHANGED <<corpus_lines, password, variety_score, uniqueness_score,
                   penalty_score, normalized, dist_calls, result>>
    /\ UNCHANGED <<lev_vars, conc_vars>>

\* score += score_variety(password)
AddVariety ==
    /\ pc = "variety"
    /\ variety_score' = score_variety(password)
    /\ total' = (total + variety_score') % 65536
    /\ pc' = "uniqueness"
    /\ UNCHANGED <<corpus_lines, password, length_score, uniqueness_score,
                   penalty_score, normalized, dist_calls, result>>
    /\ UNCHANGED <<lev_vars, conc_vars>>

\* score += score_uniqueness(password)
AddUniqueness ==
    /\ pc = "uniqueness"
    /\ uniqueness_score' = score_uniqueness(password)
    /\ total' = (total + uniqueness_score') % 65536
    /\ pc' = "penalties"
    /\ UNCHANGED <<corpus_lines, password, length_score, variety_score,
                   penalty_score, normalized, dist_calls, result>>
    /\ UNCHANGED <<lev_vars, conc_vars>>

\* score += score_penalties(password)
AddPenalties ==
    /\ pc = "penalties"
    /\ LET r == penalties(PASSWORD_DATA(corpus_lines), password)
       IN  /\ penalty_score' = r.ret
           /\ normalized' = r.normalized
           /\ dist_calls' = r.calls
    /\ total' = (total + penalty_score') % 65536
    /\ pc' = "return"
    /\ UNCHANGED <<corpus_lines, password, length_score, variety_score,
                   uniqueness_score, result>>
    /\ UNCHANGED <<lev_vars, conc_vars>>

\* the tail expression `score`
Return ==
    /\ pc = "return"
    /\ result' = total
    /\ pc' = "done"
    /\ UNCHANGED <<corpus_lines, password, total, length_score, variety_score,
                   uniqueness_score, penalty_score, normalized, dist_calls>>
    /\ UNCHANGED <<lev_vars, conc_vars>>

Next == AddLength \/ AddVariety \/ AddUniqueness \/ AddPenalties \/ Return

Spec == Init /\ [][Next]_vars

\* ------------------------------------------- what the claims are stated in

\* The row of the Wagner-Fischer matrix after character ca, from the row
\* before it: entry j + 1 is the distance to the first j characters of b.
RECURSIVE EditRow(_, _, _, _)
EditRow(prev, ca, b, row) ==
    IF Len(row) > Len(b) THEN row
    ELSE LET j == Len(row)
             sub == prev[j] + (IF ca = b[j] THEN 0 ELSE 1)
         IN  EditRow(prev, ca, b,
                     Append(row, Min(Min(row[j] + 1, prev[j + 1] + 1), sub)))

RECURSIVE EditRows(_, _, _, _)
EditRows(a, b, i, prev) ==
    IF i > Len(a) THEN prev[Len(b) + 1]
    ELSE EditRows(a, b, i + 1, EditRow(prev, a[i], b, <<prev[1] + 1>>))

\* The unit-cost Levenshtein distance between two character sequences.
EditDistance(a, b) == EditRows(a, b, 1, [j \in 1..(Len(b) + 1) |-> j - 1])

\* Unconditional trim, then lowercase.
TrimLower(s) == to_lowercase(trim(s))

\* The index the calls of this behaviour read.
Data == PASSWORD_DATA(corpus_lines)

\* s is the normalized form of some line of the word list.
IsCorpusEntry(s) ==
    \E i \in 1..Len(corpus_lines) : TrimLower(corpus_lines[i]) = s

\* Entry i of the index passes the length filter and the boundary filter
\* for the input s.
PassesFilters(i, s) ==
    LET e == Data[i].password
    IN  /\ Abs(Len(e) - Len(s)) <= 3
        /\ \/ chars_first(e) = chars_first(s)
           \/ chars_last(e) = chars_last(s)

Passing(s) == {i \in 1..Len(Data) : PassesFilters(i, s)}

SetMin(S) == CHOOSE x \in S : \A y \in S : x <= y

PenaltiesDone == pc \in {"return", "done"}

\* C1: a password whose trimmed, lowercased form is a corpus entry scores 0
\* in total, whatever its other sub-scores are.
C1_ExactMatchScoresZero ==
    (pc = "done" /\ IsCorpusEntry(TrimLower(password))) => result = 0

\* C2: for an input that is no exact match, 50 is returned only when the
\* deciding candidate is at true distance 3 or 4, and 200 is returned
\* whenever no candidate passing both filters is within distance 4.
C2_BandsByTrueDistance ==
    (PenaltiesDone /\ ~IsCorpusEntry(normalized)) =>
        /\ penalty_score = 50 =>
               LET d == EditDistance(
                            normalized,
                            Data[dist_calls[Len(dist_calls)]].password)
               IN  d > 2 /\ d <= 4
        /\ (\A i \in Passing(normalized) :
                EditDistance(normalized, Data[i].password) > 4)
           => penalty_score = 200

\* C4: score_penalties(p) = score_penalties(lower(trim(p))): the conditional
\* normalization yields lower(trim(p)), is idempotent, and decides the result.
C4_NormalizationInvariance ==
    PenaltiesDone =>
        /\ normalized = TrimLower(password)
        /\ normalize(normalized) = normalized
        /\ penalty_score = score_penalties(Data, TrimLower(password))

\* C5: score_uniqueness is 200 * distinct characters / characters, rounded
\* to the nearest integer, and 0 for the empty password.
C5_UniquenessByCharacters ==
    uniqueness_score # Unset =>
        uniqueness_score =
            IF password = <<>> THEN 0
            ELSE LET distinct ==
                         Cardinality({password[i] : i \in 1..Len(password)})
                     n == Len(password)
                 IN  (400 * distinct + n) \div (2 * n)

\* C6: every sub-score stays in its range: length in [0,400], variety in
\* {0,25,70,130,200}, uniqueness in [0,200], penalties in {0,50,150,200}.
C6_SubScoresBounded ==
    /\ length_score # Unset => length_score \in 0..400
    /\ variety_score # Unset => variety_score \in {0, 25, 70, 130, 200}
    /\ uniqueness_score # Unset => uniqueness_score \in 0..200
    /\ penalty_score # Unset => penalty_score \in {0, 50, 150, 200}

C6_Witness ==
    /\ pc = "done"
    /\ variety_score = 200
    /\ uniqueness_score = 200
    /\ penalty_score = 50
    /\ length_score = 10

\* The breakpoint table of the length score.
LengthTable(n) ==
    CASE n = 0 -> 0
      [] n \in 1..4 -> 2 * n + 2
      [] n \in 5..8 -> 6 * n + 2
      [] n \in 9..12 -> 12 * n + 6
      [] n \in 13..16 -> 15 * n + 10
      [] n \in 17..24 -> 15 * n
      [] n \in 25..39 -> (5 * n) \div 2 + 300
      [] OTHER -> 400

\* C7: the length score is the breakpoint table applied to the character
\* count, one more character never lowers it, and it is 400 from 40 on.
C7_LengthBands ==
    length_score # Unset =>
        /\ length_score = LengthTable(Len(password))
        /\ \A c \in Alphabet :
               score_length(Append(password, c)) >= length_score
        /\ Len(password) >= 40 => length_score = 400

C7_Witness ==
    /\ pc = "done"
    /\ Len(password) = 25
    /\ str_len(password) = 26
    /\ length_score = 362

\* C9: the edit distance is computed only for candidates that pass the
\* length filter and the boundary filter.
C9_DistanceOnlyAfterFilters ==
    PenaltiesDone =>
        \A k \in 1..Len(dist_calls) : PassesFilters(dist_calls[k], normalized)

\* C10: the result is 0 exactly for a corpus entry; otherwise the first entry
\* passing both filters decides it (150 if its capped distance is at most 2,
\* else 50), it is 200 exactly when no entry passes both, and no entry after
\* the deciding one is examined.
C10_FirstPassingDecides ==
    PenaltiesDone =>
        /\ penalty_score = 0 <=> IsCorpusEntry(normalized)
        /\ ~IsCorpusEntry(normalized) =>
               IF Passing(normalized) = {}
               THEN penalty_score = 200
               ELSE LET f == SetMin(Passing(normalized))
                        d == levenshtein_with_cutoff(normalized,
                                                     Data[f].password, 2)
                    IN  /\ penalty_score = IF d <= 2 THEN 150 ELSE 50
                        /\ \A k \in 1..Len(dist_calls) : dist_calls[k] <= f

\* The first passing entry is far and a later passing entry is near.
C10_Witness ==
    /\ pc = "done"
    /\ penalty_score = 50
    /\ \E i \in Passing(normalized) :
           /\ i > SetMin(Passing(normalized))
           /\ EditDistance(normalized, Data[i].password) <= 2

\* ------------------------------------ levenshtein_with_cutoff, on its own

InitLev ==
    /\ ScoreIdle
    /\ ConcIdle
    /\ lev_a \in Strs(LevAlphabet, MaxLevLen)
    /\ lev_b \in Strs(LevAlphabet, MaxLevLen)
    /\ lev_k \in 0..MaxCutoff
    /\ lev_ret = Unset

CallLev ==
    /\ lev_ret = Unset
    /\ lev_ret' = levenshtein_with_cutoff(lev_a, lev_b, lev_k)
    /\ UNCHANGED <<lev_a, lev_b, lev_k>>
    /\ UNCHANGED <<score_vars, conc_vars>>

NextLev == CallLev

SpecLev == InitLev /\ [][NextLev]_vars

\* ------------------------------- concurrent calls of score_penalties

InitConc ==
    /\ ScoreIdle
    /\ LevIdle
    /\ ConcIdle

\* A thread enters score_penalties and reaches PASSWORD_DATA.iter() of the
\* direct match check.
Call(t) ==
    /\ tpc[t] = "idle"
    /\ tcalls[t] < MaxCalls
    /\ \E p \in ConcPasswords : tpw' = [tpw EXCEPT ![t] = p]
    /\ tcalls' = [tcalls EXCEPT ![t] = @ + 1]
    /\ tpc' = [tpc EXCEPT ![t] = "force"]
    /\ tat' = [tat EXCEPT ![t] = "match"]
    /\ tret' = [tret EXCEPT ![t] = Unset]
    /\ UNCHANGED <<cell_state, cell_value, builds, tbuf, tseen>>
    /\ UNCHANGED <<score_vars, lev_vars>>

\* A second initializer is started while one is running.
ForceUnguarded(t) ==
    /\ tpc[t] = "force"
    /\ IF cell_state = "Complete"
       THEN /\ tpc' = [tpc EXCEPT ![t] = "read"]
            /\ UNCHANGED <<cell_state, builds, tbuf>>
       ELSE /\ cell_state' = "Running"
            /\ builds' = builds + 1
            /\ tbuf' = [tbuf EXCEPT ![t] = <<>>]
            /\ tpc' = [tpc EXCEPT ![t] = "init"]
    /\ UNCHANGED <<cell_value, tat, tpw, tseen, tret, tcalls>>
    /\ UNCHANGED <<score_vars, lev_vars>>

\* Deref of the Lazy static: a complete cell is served at once; the thread
\* that finds it incomplete marks it running and runs the initializer; a
\* thread that finds it running waits.
Force(t) ==
    /\ tpc[t] = "force"
    /\ CASE cell_state = "Complete" ->
                /\ tpc' = [tpc EXCEPT ![t] = "read"]
                /\ UNCHANGED <<cell_state, builds, tbuf>>
         [] cell_state = "Incomplete" ->
                /\ cell_state' = "Running"
                /\ builds' = builds + 1
                /\ tbuf' = [tbuf EXCEPT ![t] = <<>>]
                /\ tpc' = [tpc EXCEPT ![t] = "init"]
         [] cell_state = "Running" ->
                /\ tpc' = [tpc EXCEPT ![t] = "wait"]
                /\ UNCHANGED <<cell_state, builds, tbuf>>
    /\ UNCHANGED <<cell_value, tat, tpw, tseen, tret, tcalls>>
    /\ UNCHANGED <<score_vars, lev_vars>>

\* The initializer maps the next line to its entry.
BuildEntry(t) ==
    /\ tpc[t] = "init"
    /\ Len(tbuf[t]) < Len(corpus_lines)
    /\ tbuf' = [tbuf EXCEPT
                   ![t] = Append(@, PasswordEntry(corpus_lines[Len(@) + 1]))]
    /\ UNCHANGED <<cell_state, cell_value, builds, tpc, tat, tpw, tseen,
                   tret, tcalls>>
    /\ UNCHANGED <<score_vars, lev_vars>>

\* collect() is done: the cell takes the Vec and becomes complete.
Publish(t) ==
    /\ tpc[t] = "init"
    /\ Len(tbuf[t]) = Len(corpus_lines)
    /\ cell_value' = tbuf[t]
    /\ cell_state' = "Complete"
    /\ tpc' = [tpc EXCEPT ![t] = "read"]
    /\ UNCHANGED <<builds, tat, tbuf, tpw, tseen, tret, tcalls>>
    /\ UNCHANGED <<score_vars, lev_vars>>

\* A waiting thread is released once the cell is complete.
Wake(t) ==
    /\ tpc[t] = "wait"
    /\ cell_state = "Complete"
    /\ tpc' = [tpc EXCEPT ![t] = "read"]
    /\ UNCHANGED <<cell_state, cell_value, builds, tat, tbuf, tpw, tseen,
                   tret, tcalls>>
    /\ UNCHANGED <<score_vars, lev_vars>>

\* The direct match check over the index: return 0 on a match, else go on to
\* PASSWORD_DATA.iter() of the candidate filter.
ReadMatch(t) ==
    /\ tpc[t] = "read"
    /\ tat[t] = "match"
    /\ tseen' = [tseen EXCEPT ![t] = cell_value]
    /\ IF direct_match(cell_value, normalize(tpw[t]))
       THEN /\ tret' = [tret EXCEPT ![t] = 0]
            /\ tpc' = [tpc EXCEPT ![t] = "idle"]
            /\ UNCHANGED tat
       ELSE /\ tpc' = [tpc EXCEPT ![t] = "force"]
            /\ tat' = [tat EXCEPT ![t] = "filter"]
            /\ UNCHANGED tret
    /\ UNCHANGED <<cell_state, cell_value, builds, tbuf, tpw, tcalls>>
    /\ UNCHANGED <<score_vars, lev_vars>>

\* The scan over the candidates, and the return.
ReadCandidates(t) ==
    /\ tpc[t] = "read"
    /\ tat[t] = "filter"
    /\ tseen' = [tseen EXCEPT ![t] = cell_value]
    /\ tret' = [tret EXCEPT
                   ![t] = scan(cell_value, normalize(tpw[t]), 1, <<>>).ret]
    /\ tpc' = [tpc EXCEPT ![t] = "idle"]
    /\ UNCHANGED <<cell_state, cell_value, builds, tat, tbuf, tpw, tcalls>>
    /\ UNCHANGED <<score_vars, lev_vars>>

NextConc ==
    \E t \in Threads :
        \/ Call(t)
        \/ Force(t)
        \/ BuildEntry(t)
        \/ Publish(t)
        \/ Wake(t)
        \/ ReadMatch(t)
        \/ ReadCandidates(t)

SpecConc == InitConc /\ [][NextConc]_vars

\* C3: levenshtein_with_cutoff(a, b, k) is min(L, k + 1), L the Levenshtein
\* distance between the character sequences, multi-byte characters included.
C3_CutoffDistance ==
    lev_ret # Unset =>
        lev_ret = Min(EditDistance(lev_a, lev_b), lev_k + 1)

\* At most one initializer is ever started, a thread reads the index only
\* from a complete cell, and what it reads is the whole index.
OnceBuilt ==
    /\ builds <= 1
    /\ \A t \in Threads :
           /\ tpc[t] = "read" => cell_state = "Complete"
           /\ tpc[t] = "init" => cell_state = "Running"
           /\ tseen[t] # Unread => tseen[t] = PASSWORD_DATA(corpus_lines)
    /\ cell_state = "Complete" => cell_value = PASSWORD_DATA(corpus_lines)

\* A complete cell stays complete and keeps its value.
NeverChanged ==
    cell_state = "Complete" =>
        (cell_state' = "Complete" /\ cell_value' = cell_value)

\* C8: under any interleaving the index is built at most once, no caller
\* reads a partially built index, callers arriving during construction read
\* the completed index, and the index never changes after construction.
C8_BuiltOnceReadOnly == []OnceBuilt /\ [][NeverChanged]_vars

\* One thread is partway through the construction, holding a partially
\* built index, while another that arrived meanwhile waits on the cell.
C8_Witness ==
    \E t, u \in Threads :
        /\ tpc[t] = "init"
        /\ Len(tbuf[t]) > 0
        /\ Len(tbuf[t]) < Len(corpus_lines)
        /\ tpc[u] = "wait"
        /\ builds = 1

====
